---- MODULE Spec2Model ----
(***************************************************************************)
(* Model of translation_helper.py (android-localization-helper).           *)
(*                                                                         *)
(* Strings whose characters the code inspects (directory names, entry      *)
(* names) are sequences of one-character strings.  A parsed document is    *)
(* the sequence of the root's child elements; a file on disk is a sequence *)
(* of lexical tokens (declaration, root tags, elements, whitespace).       *)
(* Optional values (None) are sequences of length 0 or 1.                  *)
(***************************************************************************)
EXTENDS Integers, Sequences, FiniteSets, TLC

(* ------------------------------ bounds -------------------------------- *)
MaxCanonLen == 2    \* entries in the default-language files, all together
MaxLocaleLen == 2   \* entries in a translation file

(* --------------------------- string helpers --------------------------- *)
\* Python s[n:]
Slice(s, n) == IF n >= Len(s) THEN <<>> ELSE SubSeq(s, n + 1, Len(s))

\* Python s.startswith(p)
StartsWith(s, p) == Len(s) >= Len(p) /\ SubSeq(s, 1, Len(p)) = p

\* Python p in s
Contains(s, p) ==
    \E i \in 1..(Len(s) - Len(p) + 1) : SubSeq(s, i, i + Len(p) - 1) = p

\* Python s[i] (0-based); only used where the code has checked the length
CharAt(s, i) == s[i + 1]

DEFAULT_VALUES_DIR == <<"v", "a", "l", "u", "e", "s">>
VALUES_DASH == DEFAULT_VALUES_DIR \o <<"-">>
PROVIDER_PREFIX == <<"p", "r", "o", "v", "i", "d", "e", "r", ".">>
PORT == <<"p", "o", "r", "t">>
LAND == <<"l", "a", "n", "d">>
DOT == <<".">>
DOT_SLASH == <<".", "/">>

Some(x) == <<x>>
None == <<>>

(* ------------------------- locale directories ------------------------- *)
\* getLangDir: the code, or None
getLangDir(dir_name) ==
    IF StartsWith(Slice(dir_name, 2), VALUES_DASH)
    THEN LET code == Slice(dir_name, 9)
         IN  IF \/ Len(code) = 2
                \/ (Len(code) = 5 /\ CharAt(code, 2) = "-")
                \/ (Len(code) = 6 /\ CharAt(code, 2) = "-")
                \/ (Contains(code, PORT) /\ CharAt(code, 2) = "-")
                \/ (Contains(code, LAND) /\ CharAt(code, 2) = "-")
             THEN Some(code)
             ELSE None
    ELSE None

RECURSIVE WalkCodes(_, _)
WalkCodes(walk, i) ==
    IF i > Len(walk) THEN <<>>
    ELSE getLangDir(walk[i]) \o WalkCodes(walk, i + 1)

\* getLangsFromDir: walk is the sequence of x[0] that os.walk('.') yields
getLangsFromDir(walk) == WalkCodes(walk, 1)

(* ------------------------------ entries ------------------------------- *)
\* An element under <resources>: its tag, its name and translatable attributes
\* (translatable = "" when the attribute is absent), its text, and the
\* whitespace that follows its end tag (ElementTree's tail).
Entry(tag, name, translatable, text, tail) ==
    [tag |-> tag, name |-> name, translatable |-> translatable,
     text |-> text, tail |-> tail]

\* (child.tag, child.get('name'))
KeyOf(child) == <<child.tag, child.name>>

\* child.get('translatable', default='true') == 'false'
NotTranslatable(child) ==
    (IF child.translatable = "" THEN "true" ELSE child.translatable) = "false"

\* child.get('name').startswith('provider.')
IsProvider(child) == StartsWith(child.name, PROVIDER_PREFIX)

RECURSIVE KeysLoop(_, _)
KeysLoop(root, i) ==
    IF i > Len(root) THEN <<>>
    ELSE IF NotTranslatable(root[i]) THEN KeysLoop(root, i + 1)
    ELSE IF IsProvider(root[i]) THEN KeysLoop(root, i + 1)
    ELSE <<KeyOf(root[i])>> \o KeysLoop(root, i + 1)

\* getKeysFromTree without the translatable test
RECURSIVE KeysLoopNoTranslatable(_, _)
KeysLoopNoTranslatable(root, i) ==
    IF i > Len(root) THEN <<>>
    ELSE IF IsProvider(root[i]) THEN KeysLoopNoTranslatable(root, i + 1)
    ELSE <<KeyOf(root[i])>> \o KeysLoopNoTranslatable(root, i + 1)

getKeysFromTree_noTranslatable(tree) == KeysLoopNoTranslatable(tree, 1)

\* getKeysFromTree without the provider test
RECURSIVE KeysLoopNoProvider(_, _)
KeysLoopNoProvider(root, i) ==
    IF i > Len(root) THEN <<>>
    ELSE IF NotTranslatable(root[i]) THEN KeysLoopNoProvider(root, i + 1)
    ELSE <<KeyOf(root[i])>> \o KeysLoopNoProvider(root, i + 1)

getKeysFromTree_noProvider(tree) == KeysLoopNoProvider(tree, 1)

\* getKeysFromTree: a tree is the sequence of the root's children
getKeysFromTree(tree) == KeysLoop(tree, 1)

RECURSIVE TagsLoop(_, _)
TagsLoop(root, i) ==
    IF i > Len(root) THEN <<>> ELSE <<root[i]>> \o TagsLoop(root, i + 1)

\* getTagsFromTree
getTagsFromTree(tree) == TagsLoop(tree, 1)

RECURSIVE KeysOfTrees(_, _)
KeysOfTrees(trees, i) ==
    IF i > Len(trees) THEN <<>>
    ELSE getKeysFromTree(trees[i]) \o KeysOfTrees(trees, i + 1)

\* getKeysFromTrees
getKeysFromTrees(trees) == KeysOfTrees(trees, 1)

RECURSIVE TagsOfTrees(_, _)
TagsOfTrees(trees, i) ==
    IF i > Len(trees) THEN <<>>
    ELSE getTagsFromTree(trees[i]) \o TagsOfTrees(trees, i + 1)

\* getTagsFromTrees
getTagsFromTrees(trees) == TagsOfTrees(trees, 1)

\* el in b
InList(el, b) == \E j \in 1..Len(b) : b[j] = el

RECURSIVE IntersectionLoop(_, _, _)
IntersectionLoop(a, b, i) ==
    IF i > Len(a) THEN <<>>
    ELSE (IF InList(a[i], b) THEN <<a[i]>> ELSE <<>>)
             \o IntersectionLoop(a, b, i + 1)

\* intersection iterating over b: [el for el in b if el in a]
intersection_overB(a, b) == IntersectionLoop(b, a, 1)

\* intersection(a, b): [el for el in a if el in b]
intersection(a, b) == IntersectionLoop(a, b, 1)

RECURSIVE DifferenceLoop(_, _, _)
DifferenceLoop(a, b, i) ==
    IF i > Len(a) THEN <<>>
    ELSE (IF ~InList(a[i], b) THEN <<a[i]>> ELSE <<>>)
             \o DifferenceLoop(a, b, i + 1)

\* difference with its operands exchanged: [el for el in b if el not in a]
difference_swapped(a, b) == DifferenceLoop(b, a, 1)

\* difference(a, b): [el for el in a if el not in b]
difference(a, b) == DifferenceLoop(a, b, 1)

RECURSIVE TagScan(_, _, _)
TagScan(tags_, key, i) ==
    IF i > Len(tags_) THEN None
    ELSE IF <<tags_[i].tag, tags_[i].name>> = key THEN Some(tags_[i])
    ELSE TagScan(tags_, key, i + 1)

\* getTagByKeyName whose scan starts at the second element
getTagByKeyName_skipFirst(tags_, key) == TagScan(tags_, key, 2)

\* getTagByKeyName: the first element whose (tag, name) is key, or None
getTagByKeyName(tags_, key) == TagScan(tags_, key, 1)

(* --------------------------- files and trees -------------------------- *)
\* A file is a sequence of tokens, all of one shape.
Tok(t, e, ws) ==
    [t |-> t, tag |-> e.tag, name |-> e.name, translatable |-> e.translatable,
     text |-> e.text, ws |-> ws]

NoEntry == Entry("", <<>>, "", "", "")
Decl == Tok("decl", NoEntry, "")            \* <?xml version='1.0' encoding='UTF-8'?>\n
RootOpen == Tok("open", NoEntry, "")        \* <resources>
RootClose == Tok("close", NoEntry, "")      \* </resources>
RootEmpty == Tok("empty", NoEntry, "")      \* <resources />
Ws(s) == Tok("ws", NoEntry, s)              \* character data between elements
ElemTok(e) == Tok("elem", e, "")            \* <tag name=.. translatable=..>text</tag>
INDENT == "\n    "

RECURSIVE ParseLoop(_, _)
ParseLoop(file, i) ==
    IF i > Len(file) THEN <<>>
    ELSE IF file[i].t = "elem"
    THEN LET tail == IF i < Len(file) /\ file[i + 1].t = "ws"
                     THEN file[i + 1].ws ELSE ""
         IN  <<Entry(file[i].tag, file[i].name, file[i].translatable,
                     file[i].text, tail)>> \o ParseLoop(file, i + 1)
    ELSE ParseLoop(file, i + 1)

\* ET.parse(fname): the root's children, each with the whitespace after it
\* as its tail; the root's own text is not a child
Parse(file) == ParseLoop(file, 1)

RECURSIVE ChildrenToString(_, _)
ChildrenToString(children, i) ==
    IF i > Len(children) THEN <<>>
    ELSE <<ElemTok(children[i])>>
             \o (IF children[i].tail = "" THEN <<>> ELSE <<Ws(children[i].tail)>>)
             \o ChildrenToString(children, i + 1)

\* ET.tostring(elem, encoding='UTF-8') of a root built by ET.Element('resources')
\* and append: no text of its own, and (Python 3) no XML declaration
tostring(children) ==
    IF children = <<>> THEN <<RootEmpty>>
    ELSE <<RootOpen>> \o ChildrenToString(children, 1) \o <<RootClose>>

\* a token whose text ends with '>' / begins with '<string'
EndsWithGt(tok) == tok.t \in {"open", "elem", "close", "empty"}
BeginsWithString(tok) == tok.t = "elem" /\ tok.tag \in {"string", "string-array"}

RECURSIVE ReplaceLoop(_, _)
ReplaceLoop(output, i) ==
    IF i > Len(output) THEN <<>>
    ELSE <<output[i]>>
             \o (IF /\ i < Len(output)
                    /\ EndsWithGt(output[i])
                    /\ BeginsWithString(output[i + 1])
                 THEN <<Ws(INDENT)>> ELSE <<>>)
             \o ReplaceLoop(output, i + 1)

\* prettify
prettify(children) ==
    LET output == tostring(children)
        declared == IF output[1].t = "decl" THEN output ELSE <<Decl>> \o output
    IN  ReplaceLoop(declared, 1)

(* ------------------------------- state -------------------------------- *)
VARIABLES
    walk,        \* res/: the directory paths os.walk('.') yields, in its order
    defaults,    \* res/values/: the files named by --input, in list order
    files,       \* res/<dir>/strings.xml for each directory: Some(file) or None
    clean,       \* --clean
    nooutput,    \* --nooutput
    pc,          \* main's position, or how it ended
    keys,        \* main: keys
    tags,        \* main: tags
    langs,       \* main: langs
    missing,     \* main: missing, a dict from language code to key list
    outFiles,    \* the output directory: strings_to_trans-<lang>.xml by lang
    lookups,     \* getTagByKeyName calls of this run: how many were made
                 \* and how many returned None
    filesAtStart \* files as they were when main started

vars == <<walk, defaults, files, clean, nooutput, pc, keys, tags, langs,
          missing, outFiles, lookups, filesAtStart>>

EmptyDict == [x \in {} |-> <<>>]

\* d with d[k] = v added or replaced
DictSet(d, k, v) == [x \in (DOMAIN d) \cup {k} |-> IF x = k THEN v ELSE d[x]]

Range(s) == {s[i] : i \in 1..Len(s)}

\* directory names directly under or below res/, as chdir would take them
DirNames(w) == {Slice(w[i], 2) : i \in {j \in 1..Len(w) : w[j] # DOT}}

\* os.path.exists(DEFAULT_VALUES_DIR) after os.chdir(res_path)
HasValuesDir(w) == DEFAULT_VALUES_DIR \in DirNames(w)

(* -------------------------- getLanguageTrees -------------------------- *)
RECURSIVE LanguageTreesLoop(_, _, _)
LanguageTreesLoop(langs_, fs, i) ==
    IF i > Len(langs_) THEN EmptyDict
    ELSE LET rest == LanguageTreesLoop(langs_, fs, i + 1)
             dir == VALUES_DASH \o langs_[i]
         IN  IF fs[dir] # None /\ langs_[i] \notin DOMAIN rest
             THEN DictSet(rest, langs_[i], Parse(fs[dir][1]))
             ELSE rest

\* getLanguageTrees: only the languages whose strings.xml exists get a tree
getLanguageTrees(langs_, fs) == LanguageTreesLoop(langs_, fs, 1)

\* findMissingKeys
findMissingKeys(keys_, langs_, fs) ==
    LET trees == getLanguageTrees(langs_, fs)
    IN  [lang \in DOMAIN trees |->
            difference(keys_, getKeysFromTree(trees[lang]))]

(* ------------------------ cleanTranslationFiles ----------------------- *)
RECURSIVE LookupAll(_, _, _)
\* the getTagByKeyName results for keys_[i..], in order
LookupAll(tags_, keys_, i) ==
    IF i > Len(keys_) THEN <<>>
    ELSE <<getTagByKeyName(tags_, keys_[i])>> \o LookupAll(tags_, keys_, i + 1)

RECURSIVE Appended(_, _)
\* the children of root after root.append of each looked-up element
Appended(found, i) ==
    IF i > Len(found) THEN <<>> ELSE found[i] \o Appended(found, i + 1)

\* the lookups cleanTranslationFiles makes for one language
CleanLookups(keys_, tree) ==
    LookupAll(getTagsFromTree(tree), intersection(keys_, getKeysFromTree(tree)), 1)

\* the lookups writeMissingKeysToFiles makes for one language
WriteLookups(tags_, missing_, lang) == LookupAll(tags_, missing_[lang], 1)

HasNone(found) == \E i \in 1..Len(found) : found[i] = None

\* the number of None among found
RECURSIVE CountNone(_, _)
CountNone(found, i) ==
    IF i > Len(found) THEN 0
    ELSE (IF found[i] = None THEN 1 ELSE 0) + CountNone(found, i + 1)

\* the lookups made up to and including the first None
UpToNone(found) ==
    IF HasNone(found)
    THEN SubSeq(found, 1, CHOOSE i \in 1..Len(found) :
                    found[i] = None /\ \A j \in 1..(i - 1) : found[j] # None)
    ELSE found

\* the languages with a tree, in the order getLanguageTrees inserted them
RECURSIVE TreeOrder(_, _, _)
TreeOrder(langs_, fs, i) ==
    IF i > Len(langs_) THEN <<>>
    ELSE (IF fs[VALUES_DASH \o langs_[i]] # None
             /\ ~InList(langs_[i], SubSeq(langs_, 1, i - 1))
          THEN <<langs_[i]>> ELSE <<>>) \o TreeOrder(langs_, fs, i + 1)

\* The loop of cleanTranslationFiles from the i-th language with a tree.
\* st = [fs, made, missed, err]: root.append(None) raises TypeError, and the
\* file of that language and of the later ones is left as it was.
RECURSIVE CleanLoop(_, _, _, _)
CleanLoop(order, keys_, st, i) ==
    IF i > Len(order) \/ st.err # "" THEN st
    ELSE LET dir == VALUES_DASH \o order[i]
             tree == Parse(st.fs[dir][1])
             found == CleanLookups(keys_, tree)
             done == UpToNone(found)
             st2 == [fs |-> IF HasNone(found) THEN st.fs
                            ELSE [st.fs EXCEPT ![dir] =
                                     Some(prettify(Appended(found, 1)))],
                     made |-> st.made + Len(done),
                     missed |-> st.missed + CountNone(done, 1),
                     err |-> IF HasNone(found) THEN "TypeError" ELSE ""]
         IN  CleanLoop(order, keys_, st2, i + 1)

\* cleanTranslationFiles
cleanTranslationFiles(langs_, keys_, fs, made, missed) ==
    CleanLoop(TreeOrder(langs_, fs, 1), keys_,
              [fs |-> fs, made |-> made, missed |-> missed, err |-> ""], 1)

\* The loop of writeMissingKeysToFiles from the i-th language.
\* st = [out, made, missed, err]: missing[lang] raises KeyError for a language
\* that findMissingKeys gave no entry.
RECURSIVE WriteLoop(_, _, _, _, _)
WriteLoop(langs_, tags_, missing_, st, i) ==
    IF i > Len(langs_) \/ st.err # "" THEN st
    ELSE LET lang == langs_[i]
         IN  IF lang \notin DOMAIN missing_
             THEN [st EXCEPT !.err = "KeyError"]
             ELSE IF Len(missing_[lang]) = 0
             THEN WriteLoop(langs_, tags_, missing_, st, i + 1)
             ELSE LET found == WriteLookups(tags_, missing_, lang)
                      done == UpToNone(found)
                      st2 == [out |-> IF HasNone(found) THEN st.out
                                      ELSE DictSet(st.out, lang,
                                               prettify(Appended(found, 1))),
                              made |-> st.made + Len(done),
                              missed |-> st.missed + CountNone(done, 1),
                              err |-> IF HasNone(found) THEN "TypeError" ELSE ""]
                  IN  WriteLoop(langs_, tags_, missing_, st2, i + 1)

\* writeMissingKeysToFiles
writeMissingKeysToFiles(langs_, tags_, missing_, out, made, missed) ==
    WriteLoop(langs_, tags_, missing_,
              [out |-> out, made |-> made, missed |-> missed, err |-> ""], 1)

(* ------------------------------- inputs ------------------------------- *)
N_a == <<"a">>
N_x == <<"x">>
N_provider_a == PROVIDER_PREFIX \o <<"a">>

\* elements a default-language file is made of
CanonPool ==
    { Entry("string", N_a, "", "A", INDENT),
      Entry("string", N_a, "false", "A0", INDENT),
      Entry("string", N_provider_a, "", "P", ""),
      Entry("plurals", N_a, "", "PA", "\n") }

\* elements a translation file is made of
LocalePool ==
    { Entry("string", N_a, "", "Ax", ""),
      Entry("string", N_a, "false", "Ay", INDENT),
      Entry("plurals", N_a, "true", "PAx", INDENT),
      Entry("string", N_x, "", "X", "\n") }

SeqsUpTo(S, n) == UNION {[1..k -> S] : k \in 0..n}

\* a well-formed file holding the given elements
FileOf(children) ==
    <<Decl>> \o (IF children = <<>> THEN <<RootEmpty>>
                 ELSE <<RootOpen, Ws(INDENT)>> \o ChildrenToString(children, 1)
                          \o <<RootClose>>)

Path(name) == DOT_SLASH \o name
D_de == VALUES_DASH \o <<"d", "e">>
D_es == VALUES_DASH \o <<"e", "s">>
D_drawable == <<"d", "r", "a", "w", "a", "b", "l", "e">>

\* res/ directories main is run in
Layouts ==
    { <<DOT, Path(DEFAULT_VALUES_DIR), Path(D_de)>>,
      <<DOT, Path(D_drawable), Path(D_es), Path(DEFAULT_VALUES_DIR), Path(D_de)>> }

\* the default-language files holding the elements c: one file, or, for two
\* elements, also two files of one element each
DefaultFiles(c) ==
    {<<Some(FileOf(c))>>} \cup
    (IF Len(c) = 2
     THEN {<<Some(FileOf(SubSeq(c, 1, 1))), Some(FileOf(SubSeq(c, 2, 2)))>>}
     ELSE {})

LocaleFiles == {None} \cup {Some(FileOf(l)) : l \in SeqsUpTo(LocalePool, MaxLocaleLen)}

InitRun ==
    /\ pc = "defaults"
    /\ keys = <<>>
    /\ tags = <<>>
    /\ langs = <<>>
    /\ missing = EmptyDict
    /\ outFiles = EmptyDict
    /\ lookups = [made |-> 0, missed |-> 0]
    /\ filesAtStart = files

\* the translation file of values-es, where that directory exists
EsFile == Some(FileOf(<<Entry("plurals", N_a, "", "PAe", "\n")>>))

\* values-de holds the translation file de, or none
InitFiles(de) ==
    files = [d \in DirNames(walk) |->
                IF d = D_de THEN de ELSE IF d = D_es THEN EsFile ELSE None]

Init ==
    /\ clean \in BOOLEAN
    /\ nooutput \in BOOLEAN
    /\ \/ /\ walk \in Layouts
          /\ \E c \in SeqsUpTo(CanonPool, MaxCanonLen) : defaults \in DefaultFiles(c)
          /\ \E de \in LocaleFiles : InitFiles(de)
       \/ \* no values/ directory
          /\ walk = <<DOT, Path(D_de)>>
          /\ defaults = <<None>>
          /\ InitFiles(Some(FileOf(<<>>)))
       \/ \* a file named by --input is not in values/
          /\ walk \in Layouts
          /\ defaults = <<Some(FileOf(<<>>)), None>>
          /\ InitFiles(None)
    /\ InitRun

(* ------------------------------- actions ------------------------------ *)
RECURSIVE DefaultTreesLoop(_, _)
DefaultTreesLoop(flist, i) ==
    IF i > Len(flist) THEN <<>>
    ELSE <<Parse(flist[i][1])>> \o DefaultTreesLoop(flist, i + 1)

\* getDefaultTrees, when getDefaultTree does not exit
getDefaultTrees(flist) == DefaultTreesLoop(flist, 1)

\* getDefaultTree calls sys.exit
DefaultTreeExits(w, flist) ==
    \/ ~HasValuesDir(w)
    \/ \E i \in 1..Len(flist) : flist[i] = None

\* main, lines 48-51
GetDefaults ==
    /\ pc = "defaults"
    /\ IF DefaultTreeExits(walk, defaults)
       THEN /\ pc' = "exit"
            /\ UNCHANGED <<keys, tags>>
       ELSE LET trees == getDefaultTrees(defaults)
            IN  /\ keys' = getKeysFromTrees(trees)
                /\ tags' = getTagsFromTrees(trees)
                /\ pc' = "langs"
    /\ UNCHANGED <<walk, defaults, files, clean, nooutput, langs, missing,
                   outFiles, lookups, filesAtStart>>

\* main, line 56
GetLangs ==
    /\ pc = "langs"
    /\ langs' = getLangsFromDir(walk)
    /\ pc' = "missing"
    /\ UNCHANGED <<walk, defaults, files, clean, nooutput, keys, tags, missing,
                   outFiles, lookups, filesAtStart>>

AfterClean == IF nooutput THEN "done" ELSE "write"

\* main, lines 61-64
FindMissing ==
    /\ pc = "missing"
    /\ missing' = findMissingKeys(keys, langs, files)
    /\ pc' = IF clean THEN "clean" ELSE AfterClean
    /\ UNCHANGED <<walk, defaults, files, clean, nooutput, keys, tags, langs,
                   outFiles, lookups, filesAtStart>>

\* main, lines 64-68
Clean ==
    /\ pc = "clean"
    /\ LET st == cleanTranslationFiles(langs, keys, files,
                                       lookups.made, lookups.missed)
       IN  /\ files' = st.fs
           /\ lookups' = [made |-> st.made, missed |-> st.missed]
           /\ pc' = IF st.err # "" THEN st.err ELSE AfterClean
    /\ UNCHANGED <<walk, defaults, clean, nooutput, keys, tags, langs, missing,
                   outFiles, filesAtStart>>

\* main, lines 68-72
Write ==
    /\ pc = "write"
    /\ LET st == writeMissingKeysToFiles(langs, tags, missing, outFiles,
                                         lookups.made, lookups.missed)
       IN  /\ outFiles' = st.out
           /\ lookups' = [made |-> st.made, missed |-> st.missed]
           /\ pc' = IF st.err # "" THEN st.err ELSE "done"
    /\ UNCHANGED <<walk, defaults, files, clean, nooutput, keys, tags, langs,
                   missing, filesAtStart>>

Next == GetDefaults \/ GetLangs \/ FindMissing \/ Clean \/ Write

Spec == Init /\ [][Next]_vars

(* ---------------------- vocabulary of the claims ---------------------- *)
\* the (tag, name) of every element of a tree, unfiltered
RawKeys(tree) == [i \in 1..Len(tree) |-> <<tree[i].tag, tree[i].name>>]

\* EntryFilter: the element takes part in translation
PassesFilter(e) == e.translatable # "false" /\ ~StartsWith(e.name, PROVIDER_PREFIX)

RECURSIVE IsSubseqFrom(_, _, _, _)
IsSubseqFrom(s, t, i, j) ==
    IF i > Len(s) THEN TRUE
    ELSE IF j > Len(t) THEN FALSE
    ELSE IF s[i] = t[j] THEN IsSubseqFrom(s, t, i + 1, j + 1)
    ELSE IsSubseqFrom(s, t, i, j + 1)

\* s is t with some positions left out
IsSubseq(s, t) == IsSubseqFrom(s, t, 1, 1)

\* t restricted to the positions in P, in t's order
RECURSIVE RestrictFrom(_, _, _)
RestrictFrom(t, P, i) ==
    IF i > Len(t) THEN <<>>
    ELSE (IF i \in P THEN <<t[i]>> ELSE <<>>) \o RestrictFrom(t, P, i + 1)

Restrict(t, P) == RestrictFrom(t, P, 1)

\* every arrangement of the elements of s
Arrangements(s) ==
    {[i \in 1..Len(s) |-> s[f[i]]] :
        f \in {g \in [1..Len(s) -> 1..Len(s)] :
                  \A i, j \in 1..Len(s) : g[i] = g[j] => i = j}}

LangDir(lang) == VALUES_DASH \o lang
LangSet == Range(langs)

\* the language had a translation file when main started / its document then
HadDoc(lang) == filesAtStart[LangDir(lang)] # None
DocAtStart(lang) == Parse(filesAtStart[LangDir(lang)][1])
\* the document in the language's translation file now
DocNow(lang) == Parse(files[LangDir(lang)][1])

\* all elements of the default-language files, in file-list then document order
RECURSIVE ElementsOf(_, _)
ElementsOf(flist, i) ==
    IF i > Len(flist) THEN <<>>
    ELSE SelectSeq(flist[i][1], LAMBDA tok : tok.t = "elem")
             \o ElementsOf(flist, i + 1)

CanonElements == ElementsOf(defaults, 1)

KeysComputed == pc \notin {"defaults", "exit"}
MissingComputed == pc \notin {"defaults", "exit", "langs", "missing"}
CleanDone == clean /\ pc \in {"write", "done", "KeyError"}

\* positions of keys whose key occurs in list
PositionsIn(list) == {i \in 1..Len(keys) : InList(keys[i], list)}

(* ------------------------------- claims ------------------------------- *)
\* C1 (partition): once a run with --clean has rewritten the translation
\* files, for every language that had a document each position of keys is in
\* exactly one of missing[lang] and the keys of the cleaned document; the two
\* lists are keys restricted to complementary position sets, so their lengths
\* add up to len(keys), duplicates included.
C1_Partition ==
    CleanDone =>
        \A lang \in LangSet : HadDoc(lang) =>
            /\ lang \in DOMAIN missing
            /\ LET kept == RawKeys(DocNow(lang))
                   M == PositionsIn(missing[lang])
                   H == PositionsIn(kept)
               IN  /\ M \cap H = {}
                   /\ M \cup H = 1..Len(keys)
                   /\ missing[lang] = Restrict(keys, M)
                   /\ kept = Restrict(keys, H)
                   /\ Len(missing[lang]) + Len(kept) = Len(keys)

\* C1 witness: a cleaned language with one canonical key missing and one kept
C1_Witness ==
    /\ CleanDone
    /\ \E lang \in LangSet :
          /\ HadDoc(lang)
          /\ Len(keys) = 2
          /\ Len(missing[lang]) = 1
          /\ Len(RawKeys(DocNow(lang))) = 1

\* C2 (order preservation): missing[lang] and the key sequence of the cleaned
\* document are subsequences of keys, and both are what the code computes
\* from any rearrangement of the language's document.
C2_OrderPreserved ==
    MissingComputed =>
        \A lang \in DOMAIN missing :
            LET arrangements == Arrangements(DocAtStart(lang))
            IN  /\ IsSubseq(missing[lang], keys)
                /\ \A doc \in arrangements :
                      difference(keys, getKeysFromTree(doc)) = missing[lang]
                /\ CleanDone =>
                      LET kept == RawKeys(DocNow(lang))
                      IN  /\ IsSubseq(kept, keys)
                          /\ \A doc \in arrangements :
                                RawKeys(Appended(CleanLookups(keys, doc), 1)) = kept

\* C2 witness: the document had both canonical keys in the opposite order
C2_Witness ==
    /\ CleanDone
    /\ \E lang \in LangSet :
          /\ HadDoc(lang)
          /\ Len(keys) = 2
          /\ keys[1] # keys[2]
          /\ RawKeys(DocAtStart(lang)) = <<keys[2], keys[1]>>
          /\ RawKeys(DocNow(lang)) = keys

\* C6 (filtering correctness): keys holds one key per element of the default
\* files that is not translatable="false" and whose name does not start with
\* "provider.", in file-list then document order, without de-duplication;
\* an excluded element contributes no position, wherever it sits.
C6_FilteringCorrect ==
    KeysComputed =>
        LET all == CanonElements
            P == {i \in 1..Len(all) : PassesFilter(all[i])}
            rank(i) == Cardinality({j \in P : j <= i})
        IN  /\ Len(keys) = Cardinality(P)
            /\ \A i \in P : keys[rank(i)] = <<all[i].tag, all[i].name>>

\* C6 witness: an excluded element precedes a retained one
C6_Witness ==
    /\ KeysComputed
    /\ Len(CanonElements) = 2
    /\ ~PassesFilter(CanonElements[1])
    /\ StartsWith(CanonElements[1].name, PROVIDER_PREFIX)
    /\ Len(keys) = 1

\* C9 (LookupMiss unreachable): no getTagByKeyName call made by
\* cleanTranslationFiles or writeMissingKeysToFiles returns None, so main
\* never appends None to a document.
C9_NoLookupMiss == lookups.missed = 0 /\ pc # "TypeError"

\* C9 witness: a finished run that looked up elements while cleaning and
\* while writing the missing keys
C9_Witness ==
    /\ pc = "done"
    /\ clean
    /\ outFiles # EmptyDict
    /\ files # filesAtStart
    /\ lookups.made >= 2

\* C4 as the specification states it (presence by raw key): a canonical key is
\* missing iff the language's document has no element at all with that
\* (tag, name), and kept by the clean iff it has one; the element's own
\* translatable="false" plays no part.
C4_PresenceByRawKey ==
    MissingComputed =>
        \A lang \in DOMAIN missing :
            LET raw == RawKeys(DocAtStart(lang))
            IN  \A i \in 1..Len(keys) :
                    /\ InList(keys[i], missing[lang]) <=> ~InList(keys[i], raw)
                    /\ CleanDone =>
                          (InList(keys[i], RawKeys(DocNow(lang)))
                               <=> InList(keys[i], raw))

\* C4 as amended (presence by filtered key): a canonical key is missing iff
\* the language's document has no element with that (tag, name) that itself
\* passes the entry filter, and kept by the clean iff it has such an element;
\* an element marked translatable="false" does not count as present.
C4_PresenceByFilteredKey ==
    MissingComputed =>
        \A lang \in DOMAIN missing :
            LET doc == DocAtStart(lang)
                present(k) == \E j \in 1..Len(doc) :
                                  /\ <<doc[j].tag, doc[j].name>> = k
                                  /\ PassesFilter(doc[j])
            IN  \A i \in 1..Len(keys) :
                    /\ InList(keys[i], missing[lang]) <=> ~present(keys[i])
                    /\ CleanDone =>
                          (InList(keys[i], RawKeys(DocNow(lang)))
                               <=> present(keys[i]))

\* C4 witness: the only element the document has for a canonical key is
\* marked translatable="false"; the key is reported missing and the clean
\* has dropped it
C4_Witness ==
    /\ CleanDone
    /\ \E lang \in LangSet :
          /\ HadDoc(lang)
          /\ \E i \in 1..Len(keys) :
                /\ InList(keys[i], RawKeys(DocAtStart(lang)))
                /\ \A j \in 1..Len(DocAtStart(lang)) :
                      RawKeys(DocAtStart(lang))[j] = keys[i]
                          => DocAtStart(lang)[j].translatable = "false"
                /\ InList(keys[i], missing[lang])
                /\ ~InList(keys[i], RawKeys(DocNow(lang)))

\* C3 (absent-locale totality): for a discovered language whose directory has
\* no translation file and a non-empty keys, missing[lang] is the whole of
\* keys; the run does not end in an error, and when it writes its output the
\* language gets its missing-keys file.
C3_AbsentLocaleTotality ==
    /\ pc # "KeyError"
    /\ (MissingComputed /\ keys # <<>>) =>
          \A lang \in LangSet : ~HadDoc(lang) =>
              /\ lang \in DOMAIN missing
              /\ missing[lang] = keys
              /\ (pc = "done" /\ ~nooutput) => lang \in DOMAIN outFiles

\* C5 (idempotence of clean): cleaning the files a clean has just written,
\* with the same keys, writes the same files.
C5_CleanIdempotent ==
    CleanDone => cleanTranslationFiles(langs, keys, files, 0, 0).fs = files

\* C8 (entry list filtered and aligned with the key space): the element that
\* the first-match lookup resolves for a missing key, and that
\* writeMissingKeysToFiles writes, is always one that passed the entry filter:
\* no missing-keys file holds an element with translatable="false" or a
\* "provider." name.
C8_WrittenEntriesPassFilter ==
    \A lang \in DOMAIN outFiles : \A i \in 1..Len(outFiles[lang]) :
        outFiles[lang][i].t = "elem" => PassesFilter(outFiles[lang][i])

\* C10 (clean does not change what is missing): the report computed before
\* the clean is the one findMissingKeys computes on the rewritten files.
C10_MissingAgreesWithCleanedFiles ==
    CleanDone => findMissingKeys(keys, langs, files) = missing


(* ------------------- scanning a directory tree alone ------------------ *)
D_zh_rTW == VALUES_DASH \o <<"z", "h", "-", "r", "T", "W">>
D_pt_BR == VALUES_DASH \o <<"p", "t", "-", "B", "R">>
D_sw600dp == VALUES_DASH \o <<"s", "w", "6", "0", "0", "d", "p">>
D_de_land == VALUES_DASH \o <<"d", "e", "-">> \o LAND
D_port == VALUES_DASH \o PORT
Sub(dir, name) == Path(dir) \o <<"/">> \o name

\* directories of a res/ tree, each with what os.walk yields for it
Subtrees ==
    << <<Path(DEFAULT_VALUES_DIR)>>,
       <<Path(D_de)>>,
       <<Path(D_zh_rTW)>>,
       <<Path(D_pt_BR)>>,
       <<Path(D_sw600dp)>>,
       <<Path(D_port)>>,
       <<Path(D_drawable), Sub(D_drawable, D_es)>>,
       <<Path(D_es), Sub(D_es, <<"x">>)>>,
       <<Path(D_de_land), Sub(D_de_land, <<"r", "a", "w">>)>> >>

RECURSIVE WalkOf(_, _)
\* os.walk('.') over the subtrees chosen, top-down
WalkOf(chosen, i) ==
    IF i > Len(Subtrees) THEN <<>>
    ELSE (IF i \in chosen THEN Subtrees[i] ELSE <<>>) \o WalkOf(chosen, i + 1)

InitScan ==
    /\ \E chosen \in SUBSET (1..Len(Subtrees)) : walk = <<DOT>> \o WalkOf(chosen, 1)
    /\ defaults = <<Some(FileOf(<<>>))>>
    /\ files = [d \in DirNames(walk) |-> None]
    /\ clean = FALSE
    /\ nooutput = FALSE
    /\ InitRun
    /\ HasValuesDir(walk)

NextScan == GetDefaults \/ GetLangs

\* main up to line 56, on res/ trees of many shapes
SpecScan == InitScan /\ [][NextScan]_vars

LangsComputed == pc \notin {"defaults", "exit", "langs"}

\* a directory directly under the root
Immediate(path) ==
    /\ StartsWith(path, DOT_SLASH)
    /\ \A i \in 3..Len(path) : path[i] # "/"

\* the shapes of code the specification accepts
AcceptedShape(c) ==
    \/ Len(c) = 2
    \/ Len(c) = 5 /\ c[3] = "-"
    \/ Len(c) = 6 /\ c[3] = "-"
    \/ /\ Len(c) > 3
       /\ c[3] = "-"
       /\ Contains(Slice(c, 3), PORT) \/ Contains(Slice(c, 3), LAND)

\* C7 (locale directory scanning): langs holds exactly the codes c of an
\* accepted shape for which "values-" + c is an immediate subdirectory of the
\* root; values itself, unrelated directories and directories nested deeper
\* contribute nothing.
C7_ImmediateLocaleDirsOnly ==
    LangsComputed =>
        LangSet = {Slice(walk[i], 9) :
                      i \in {j \in 1..Len(walk) :
                                /\ Immediate(walk[j])
                                /\ StartsWith(Slice(walk[j], 2), VALUES_DASH)
                                /\ AcceptedShape(Slice(walk[j], 9))}}

====
